---- MODULE Spec2Model ----
(***************************************************************************)
(* Model of src/src/main.ts, the entry point of the application: the       *)
(* module top level (startup), the beforeunload handler, the development   *)
(* debug hooks on window and the navigation-timing report.                 *)
(*                                                                         *)
(* JavaScript runs one task at a time: `thread` names the task that holds  *)
(* the thread.  The module top level holds it from the start until it      *)
(* returns or throws; a run of the async beforeunload handler holds it     *)
(* between two awaits and gives it up at each await.  Every call made is   *)
(* appended, with its outcome (returned or threw), to the log of the task  *)
(* that made it.  Message texts are given in English.                      *)
(***************************************************************************)
EXTENDS Integers, Sequences, FiniteSets, TLC

VARIABLES
    DEV,              \* import.meta.env.DEV, fixed by the build
    isDev,            \* const isDev (line 32): << >> until initialised
    pc,               \* the statement the module top level is at
    thread,           \* the task that holds the JavaScript thread
    app,              \* the application instance made by createApp
    window,           \* the own properties of window this file touches
    listeners,        \* the beforeunload listeners registered on window
    hpc,              \* per run of the beforeunload handler: its statement
    trace,            \* the calls made by the module top level, in order, with outcomes
    htrace,           \* per run of the beforeunload handler: the calls it made
    console,          \* the calls made by window.debugMemory methods
    navigationEntry,  \* const navigationEntry (line 111): << >> or <<entry>>
    preload,          \* the promise returned by preloadComponent('HomeView')
    faults,           \* calls that threw and promises that rejected so far
    debugCalls,       \* calls of a window.debugMemory method so far
    tampers           \* outside attempts to change window.__PERF_TOOLS__ so far

vars == <<DEV, isDev, pc, thread, app, window, listeners, hpc, trace, htrace, console,
          navigationEntry, preload, faults, debugCalls, tampers>>

---------------------------------------------------------------------------
(* Bounds *)

MaxRuns == 2

MaxFaults == 2

MaxDebugCalls == 1

MaxTampers == 1

Runs == 1..MaxRuns

---------------------------------------------------------------------------
(* Tasks *)

MainTask == <<"main">>

Run(r) == <<"beforeunload", r>>

NoTask == << >>

\* A call may throw (a promise may reject) while the fault budget lasts.
Outcomes == IF faults < MaxFaults THEN {FALSE, TRUE} ELSE {FALSE}

Call(fn, args, threw) == [fn |-> fn, args |-> args, threw |-> threw]

Count(threw) == IF threw THEN 1 ELSE 0

---------------------------------------------------------------------------
(* Property semantics of the window object *)

WindowProps == {"debugMemory", "__PERF_TOOLS__"}

Absent == [present |-> FALSE, value |-> "undefined", writable |-> FALSE, configurable |-> FALSE]

\* window.p = v
SetProp(w, p, v) ==
    IF ~w[p].present
    THEN [w EXCEPT ![p] = [present |-> TRUE, value |-> v, writable |-> TRUE, configurable |-> TRUE]]
    ELSE IF w[p].writable
    THEN [w EXCEPT ![p].value = v]
    ELSE w

\* Object.defineProperty(window, p, {value, writable, configurable})
DefineProp(w, p, d) ==
    IF ~w[p].present \/ w[p].configurable
    THEN [w EXCEPT ![p] = [present |-> TRUE, value |-> d.value, writable |-> d.writable,
                           configurable |-> d.configurable]]
    ELSE IF w[p].writable /\ ~d.configurable
    THEN [w EXCEPT ![p].value = d.value, ![p].writable = d.writable]
    ELSE w

\* delete window.p
DeleteProp(w, p) ==
    IF w[p].present /\ w[p].configurable THEN [w EXCEPT ![p] = Absent] ELSE w

---------------------------------------------------------------------------
(* Values built by the file *)

LeakIntervalDev == 15000

LeakIntervalProd == 30000

MemoryMonitorInterval == 15000

LeakInterval_swapped(dev) == IF dev THEN LeakIntervalProd ELSE LeakIntervalDev

\* isDev ? 15000 : 30000
LeakInterval(dev) == IF dev THEN LeakIntervalDev ELSE LeakIntervalProd

\* The body of each window.debugMemory method: the calls it makes, in order.
DebugMemory ==
    [checkMemory |-> <<"memoryLeakDetector.forceCheck">>,
     getStats    |-> <<"memoryLeakDetector.getMemoryStats">>,
     cleanupAll  |-> <<"webSocketCleaner.cleanupAll", "StoreCleaner.cleanupAll">>]

PerfToolsDescriptor_writable ==
    [value |-> "performanceTools", writable |-> TRUE, configurable |-> TRUE]

\* { value: performanceTools, writable: false, configurable: false }
PerfToolsDescriptor ==
    [value |-> "performanceTools", writable |-> FALSE, configurable |-> FALSE]

---------------------------------------------------------------------------
(* The development-mode conditions *)

DebugHooksGuard_always == TRUE

\* if (isDev), line 75
DebugHooksGuard == isDev[1]

\* if (import.meta.env.DEV), line 88
PerfInitGuard == DEV

\* if (import.meta.env.DEV), line 143
GlobalsGuard == DEV

UnloadDevGuard_always == TRUE

\* if (isDev), line 65
UnloadDevGuard == isDev[1]

---------------------------------------------------------------------------
(* Navigation timing.  Times are in thousandths of a millisecond.          *)

NavEntries ==
    { [domContentLoadedEventStart |-> 120000, domContentLoadedEventEnd |-> 121234,
       loadEventStart |-> 300000, loadEventEnd |-> 300005,
       domainLookupStart |-> 1000, domainLookupEnd |-> 1000,
       connectStart |-> 1000, connectEnd |-> 3456],
      [domContentLoadedEventStart |-> 0, domContentLoadedEventEnd |-> 0,
       loadEventStart |-> 0, loadEventEnd |-> 0,
       domainLookupStart |-> 500, domainLookupEnd |-> 995,
       connectStart |-> 995, connectEnd |-> 1000] }

\* x.toFixed(2): the number of hundredths nearest to x, the larger on a tie.
ToFixed2(x) == (x + 5) \div 10

Metric(label, x) == Call("console.log", <<label, ToFixed2(x)>>, FALSE)

MetricLines_noTcp(e) ==
    << Call("console.log", <<"app performance metrics">>, FALSE),
       Metric("DOMContentLoaded", e.domContentLoadedEventEnd - e.domContentLoadedEventStart),
       Metric("Load Complete", e.loadEventEnd - e.loadEventStart),
       Metric("DNS Lookup", e.domainLookupEnd - e.domainLookupStart) >>

\* lines 114-126: the console lines written for a navigation entry
MetricLines(e) ==
    << Call("console.log", <<"app performance metrics">>, FALSE),
       Metric("DOMContentLoaded", e.domContentLoadedEventEnd - e.domContentLoadedEventStart),
       Metric("Load Complete", e.loadEventEnd - e.loadEventStart),
       Metric("DNS Lookup", e.domainLookupEnd - e.domainLookupStart),
       Metric("TCP Connect", e.connectEnd - e.connectStart) >>

---------------------------------------------------------------------------
(* Initial state: the module is about to run its first statement.          *)

Init ==
    /\ DEV \in BOOLEAN
    /\ isDev = << >>
    /\ pc = "createApp"
    /\ thread = MainTask
    /\ app = [created |-> FALSE, plugins |-> << >>, mounted |-> FALSE,
              errorHandler |-> FALSE, globalProperties |-> {}]
    /\ window = [p \in WindowProps |-> Absent]
    /\ listeners = << >>
    /\ hpc = [r \in Runs |-> "idle"]
    /\ trace = << >>
    /\ htrace = [r \in Runs |-> << >>]
    /\ console = << >>
    /\ navigationEntry = << >>
    /\ preload = "none"
    /\ faults = 0
    /\ debugCalls = 0
    /\ tampers = 0

---------------------------------------------------------------------------
(* The module top level, lines 17-168.  No statement of it is inside a     *)
(* try block: a throw ends the module's evaluation.                        *)

StartupOrder_mountLast ==
    << "createApp", "usePinia", "app.use(router)", "app.use(i18n)",
       "storeManager.initialize", "isDev", "memoryLeakDetector.startMonitoring",
       "addEventListener", "debugMemory", "memoryMonitor.startMonitoring",
       "componentPreloader.preloadComponent", "navigationTiming",
       "errorHandler", "app.mount", "globals", "done" >>

\* The statements of the module top level in the order they are written.
StartupOrder ==
    << "createApp", "usePinia", "app.use(router)", "app.use(i18n)",
       "storeManager.initialize", "isDev", "memoryLeakDetector.startMonitoring",
       "addEventListener", "debugMemory", "memoryMonitor.startMonitoring",
       "componentPreloader.preloadComponent", "app.mount", "navigationTiming",
       "errorHandler", "globals", "done" >>

After(order, s) == order[(CHOOSE i \in 1..Len(order) : order[i] = s) + 1]

StartupGoto_swallow(s, threw) ==
    /\ pc' = After(StartupOrder, s)
    /\ thread' = IF After(StartupOrder, s) = "done" THEN NoTask ELSE MainTask

\* After statement s: the next statement, or the end of the evaluation on a throw.
StartupGoto(s, threw) ==
    /\ pc' = IF threw THEN "aborted" ELSE After(StartupOrder, s)
    /\ thread' = IF threw \/ After(StartupOrder, s) = "done" THEN NoTask ELSE MainTask

AtStartup(s) == thread = MainTask /\ pc = s

\* const app = createApp(App)
CreateApp ==
    /\ AtStartup("createApp")
    /\ \E threw \in Outcomes :
        /\ trace' = Append(trace, Call("createApp", << >>, threw))
        /\ faults' = faults + Count(threw)
        /\ app' = IF threw THEN app ELSE [app EXCEPT !.created = TRUE]
        /\ StartupGoto("createApp", threw)
    /\ UNCHANGED <<DEV, htrace, console, isDev, window, listeners, hpc, navigationEntry, preload,
                   debugCalls, tampers>>

\* usePinia(app); app.use(router); app.use(i18n)
Plugin(s, name) ==
    /\ AtStartup(s)
    /\ \E threw \in Outcomes :
        /\ trace' = Append(trace, Call(s, << >>, threw))
        /\ faults' = faults + Count(threw)
        /\ app' = IF threw THEN app ELSE [app EXCEPT !.plugins = Append(@, name)]
        /\ StartupGoto(s, threw)
    /\ UNCHANGED <<DEV, htrace, console, isDev, window, listeners, hpc, navigationEntry, preload,
                   debugCalls, tampers>>

UsePinia == Plugin("usePinia", "pinia")

UseRouter == Plugin("app.use(router)", "router")

UseI18n == Plugin("app.use(i18n)", "i18n")

\* storeManager.initialize()
StoreManagerInitialize ==
    /\ AtStartup("storeManager.initialize")
    /\ \E threw \in Outcomes :
        /\ trace' = Append(trace, Call("storeManager.initialize", << >>, threw))
        /\ faults' = faults + Count(threw)
        /\ StartupGoto("storeManager.initialize", threw)
    /\ UNCHANGED <<DEV, htrace, console, isDev, app, window, listeners, hpc, navigationEntry, preload,
                   debugCalls, tampers>>

\* const isDev = import.meta.env.DEV
ReadIsDev ==
    /\ AtStartup("isDev")
    /\ isDev' = <<DEV>>
    /\ StartupGoto("isDev", FALSE)
    /\ UNCHANGED <<DEV, htrace, console, app, window, listeners, hpc, trace, navigationEntry, preload,
                   faults, debugCalls, tampers>>

\* memoryLeakDetector.startMonitoring(isDev ? 15000 : 30000)
LeakDetectorStart ==
    /\ AtStartup("memoryLeakDetector.startMonitoring")
    /\ \E threw \in Outcomes :
        /\ trace' = Append(trace, Call("memoryLeakDetector.startMonitoring",
                                       <<LeakInterval(isDev[1])>>, threw))
        /\ faults' = faults + Count(threw)
        /\ StartupGoto("memoryLeakDetector.startMonitoring", threw)
    /\ UNCHANGED <<DEV, htrace, console, isDev, app, window, listeners, hpc, navigationEntry, preload,
                   debugCalls, tampers>>

\* window.addEventListener('beforeunload', async () => {...})
AddEventListener ==
    /\ AtStartup("addEventListener")
    /\ listeners' = Append(listeners, "beforeunload")
    /\ trace' = Append(trace, Call("window.addEventListener", <<"beforeunload">>, FALSE))
    /\ StartupGoto("addEventListener", FALSE)
    /\ UNCHANGED <<DEV, htrace, console, isDev, app, window, hpc, navigationEntry, preload,
                   faults, debugCalls, tampers>>

\* if (isDev) { window.debugMemory = {checkMemory, getStats, cleanupAll} }
InstallDebugMemory ==
    /\ AtStartup("debugMemory")
    /\ IF DebugHooksGuard
       THEN /\ window' = SetProp(window, "debugMemory", "debugMemory")
            /\ trace' = Append(trace, Call("window.debugMemory =", << >>, FALSE))
       ELSE UNCHANGED <<window, trace>>
    /\ StartupGoto("debugMemory", FALSE)
    /\ UNCHANGED <<DEV, htrace, console, isDev, app, listeners, hpc, navigationEntry, preload,
                   faults, debugCalls, tampers>>

StatusLines ==
    << Call("console.log", <<"performance monitor status:">>, FALSE),
       Call("console.log", <<"- memory leak detection: started">>, FALSE),
       Call("console.log", <<"- memory monitor: started">>, FALSE),
       Call("console.log", <<"- component preloader: started">>, FALSE),
       Call("console.log", <<"- bundle analyzer: started">>, FALSE),
       Call("console.log", <<"- code splitting manager: started">>, FALSE),
       Call("console.log", <<"- event listener manager: started">>, FALSE) >>

\* if (import.meta.env.DEV) { console.log(...); memoryMonitor.startMonitoring(15000)
MemoryMonitorStart ==
    /\ AtStartup("memoryMonitor.startMonitoring")
    /\ IF PerfInitGuard
       THEN \E threw \in Outcomes :
               /\ trace' = trace \o
                     << Call("console.log", <<"dev performance tools enabled">>, FALSE),
                        Call("memoryMonitor.startMonitoring",
                             <<MemoryMonitorInterval>>, threw) >>
               /\ faults' = faults + Count(threw)
               /\ StartupGoto("memoryMonitor.startMonitoring", threw)
       ELSE /\ UNCHANGED <<trace, faults>>
            /\ StartupGoto("memoryMonitor.startMonitoring", FALSE)
    /\ UNCHANGED <<DEV, htrace, console, isDev, app, window, listeners, hpc, navigationEntry, preload,
                   debugCalls, tampers>>

\* componentPreloader.preloadComponent('HomeView').catch(console.error); console.log(...) }
PreloadComponent ==
    /\ AtStartup("componentPreloader.preloadComponent")
    /\ IF PerfInitGuard
       THEN \E threw \in Outcomes :
               /\ trace' = trace \o
                     << Call("componentPreloader.preloadComponent",
                             <<"HomeView">>, threw) >> \o
                     (IF threw THEN << >> ELSE StatusLines)
               /\ preload' = IF threw THEN preload ELSE "pending"
               /\ faults' = faults + Count(threw)
               /\ StartupGoto("componentPreloader.preloadComponent", threw)
       ELSE /\ UNCHANGED <<trace, preload, faults>>
            /\ StartupGoto("componentPreloader.preloadComponent", FALSE)
    /\ UNCHANGED <<DEV, htrace, console, isDev, app, window, listeners, hpc, navigationEntry,
                   debugCalls, tampers>>

\* The promise of preloadComponent settles; .catch(console.error) handles a rejection.
PreloadSettles ==
    /\ thread = NoTask
    /\ preload = "pending"
    /\ \E rejected \in Outcomes :
        /\ preload' = IF rejected THEN "rejected" ELSE "fulfilled"
        /\ trace' = IF rejected
                    THEN Append(trace, Call("console.error",
                                            <<"preloadComponent rejected">>, FALSE))
                    ELSE trace
        /\ faults' = faults + Count(rejected)
    /\ UNCHANGED <<DEV, htrace, console, isDev, pc, thread, app, window, listeners, hpc, navigationEntry,
                   debugCalls, tampers>>

\* app.mount('#app')
Mount ==
    /\ AtStartup("app.mount")
    /\ \E threw \in Outcomes :
        /\ trace' = Append(trace, Call("app.mount", <<"#app">>, threw))
        /\ faults' = faults + Count(threw)
        /\ app' = IF threw THEN app ELSE [app EXCEPT !.mounted = TRUE]
        /\ StartupGoto("app.mount", threw)
    /\ UNCHANGED <<DEV, htrace, console, isDev, window, listeners, hpc, navigationEntry, preload,
                   debugCalls, tampers>>

\* const navigationEntry = performance.getEntriesByType('navigation')[0]
\* if (navigationEntry) { console.log(...) x 5 }
NavigationTiming ==
    /\ AtStartup("navigationTiming")
    /\ \E e \in {<< >>} \cup {<<n>> : n \in NavEntries} :
        /\ navigationEntry' = e
        /\ trace' = Append(trace, Call("performance.getEntriesByType",
                                       <<"navigation">>, FALSE))
                    \o (IF e # << >> THEN MetricLines(e[1]) ELSE << >>)
    /\ StartupGoto("navigationTiming", FALSE)
    /\ UNCHANGED <<DEV, htrace, console, isDev, app, window, listeners, hpc, preload,
                   faults, debugCalls, tampers>>

\* app.config.errorHandler = (err, instance, info) => {...}
InstallErrorHandler ==
    /\ AtStartup("errorHandler")
    /\ app' = [app EXCEPT !.errorHandler = TRUE]
    /\ trace' = Append(trace, Call("app.config.errorHandler =", << >>, FALSE))
    /\ StartupGoto("errorHandler", FALSE)
    /\ UNCHANGED <<DEV, htrace, console, isDev, window, listeners, hpc, navigationEntry, preload,
                   faults, debugCalls, tampers>>

\* if (import.meta.env.DEV) { app.config.globalProperties.$performance = {...}
\*   Object.defineProperty(window, '__PERF_TOOLS__', {...}); console.log(...) }
ExposeGlobals ==
    /\ AtStartup("globals")
    /\ IF GlobalsGuard
       THEN /\ app' = [app EXCEPT !.globalProperties = @ \cup {"$performance"}]
            /\ window' = DefineProp(window, "__PERF_TOOLS__", PerfToolsDescriptor)
            /\ trace' = trace \o
                  << Call("app.config.globalProperties.$performance =", << >>, FALSE),
                     Call("Object.defineProperty", <<"__PERF_TOOLS__">>, FALSE),
                     Call("console.log", <<"performance tools on window.__PERF_TOOLS__">>, FALSE) >>
       ELSE UNCHANGED <<app, window, trace>>
    /\ StartupGoto("globals", FALSE)
    /\ UNCHANGED <<DEV, htrace, console, isDev, listeners, hpc, navigationEntry, preload,
                   faults, debugCalls, tampers>>

Startup ==
    \/ CreateApp \/ UsePinia \/ UseRouter \/ UseI18n \/ StoreManagerInitialize
    \/ ReadIsDev \/ LeakDetectorStart \/ AddEventListener \/ InstallDebugMemory
    \/ MemoryMonitorStart \/ PreloadComponent \/ Mount \/ NavigationTiming
    \/ InstallErrorHandler \/ ExposeGlobals

---------------------------------------------------------------------------
(* The beforeunload handler, lines 36-72: an async function.  Run r is     *)
(* the r-th dispatch of the event.                                         *)

HandlerOrder_storeFirst ==
    << "start", "await:websocket-service", "WebSocketService.destroyInstance",
       "memoryLeakDetector.stopMonitoring", "StoreCleaner.cleanupAll",
       "webSocketCleaner.cleanupAll", "import:memory-optimization",
       "await:memory-optimization", "MemoryOptimizer.cleanup",
       "memoryMonitor.stopMonitoring", "componentPreloader.destroy",
       "eventListenerManager.cleanup", "codeSplittingManager.cleanup",
       "bundleAnalyzer.printReport", "done" >>

\* The statements of the handler in the order they are written.
HandlerOrder ==
    << "start", "await:websocket-service", "WebSocketService.destroyInstance",
       "memoryLeakDetector.stopMonitoring", "webSocketCleaner.cleanupAll",
       "StoreCleaner.cleanupAll", "import:memory-optimization",
       "await:memory-optimization", "MemoryOptimizer.cleanup",
       "memoryMonitor.stopMonitoring", "componentPreloader.destroy",
       "eventListenerManager.cleanup", "codeSplittingManager.cleanup",
       "bundleAnalyzer.printReport", "done" >>

HandlerGoto_swallow(r, s, threw) ==
    /\ hpc' = [hpc EXCEPT ![r] = After(HandlerOrder, s)]
    /\ thread' = IF After(HandlerOrder, s) = "done" THEN NoTask ELSE Run(r)

\* After a statement outside any try block: a throw rejects the handler's promise.
HandlerGoto(r, s, threw) ==
    /\ hpc' = [hpc EXCEPT ![r] = IF threw THEN "rejected" ELSE After(HandlerOrder, s)]
    /\ thread' = IF threw \/ After(HandlerOrder, s) = "done" THEN NoTask ELSE Run(r)

TryCatch_missing(r, s, afterTry, threw) ==
    /\ hpc' = [hpc EXCEPT ![r] = IF threw THEN "rejected" ELSE After(HandlerOrder, s)]
    /\ thread' = IF threw THEN NoTask ELSE Run(r)

\* After a statement inside try { ... } catch (error) { console.error(...) }:
\* a throw goes to the catch block and from there to the statement after it.
TryCatch(r, s, afterTry, threw) ==
    /\ hpc' = [hpc EXCEPT ![r] = IF threw THEN afterTry ELSE After(HandlerOrder, s)]
    /\ thread' = Run(r)

AtHandler(r, s) == thread = Run(r) /\ hpc[r] = s

\* What a statement of the handler leaves alone.
outsideHandler == <<DEV, isDev, pc, app, window, listeners, trace, console, navigationEntry,
                    preload, debugCalls, tampers>>

Log(r, calls) == htrace' = [htrace EXCEPT ![r] = @ \o calls]

\* The console.error of a catch block, written when the try block threw.
CatchLog(msg, threw) ==
    IF threw THEN << Call("console.error", <<msg>>, FALSE) >> ELSE << >>

\* The event is dispatched: console.log(...), then import('@/services/websocket-service')
\* is called and awaited, which gives up the thread.
BeforeUnload(r) ==
    /\ thread = NoTask
    /\ Len(listeners) > 0
    /\ hpc[r] = "idle"
    /\ \A q \in Runs : q < r => hpc[q] # "idle"
    /\ Log(r, << Call("console.log", <<"app closing, cleaning up">>, FALSE),
                 Call("import", <<"@/services/websocket-service">>, FALSE) >>)
    /\ hpc' = [hpc EXCEPT ![r] = After(HandlerOrder, "start")]
    /\ UNCHANGED <<thread, faults>>
    /\ UNCHANGED outsideHandler

\* const { WebSocketService } = await import(...): the import has settled.
ResumeWebSocketImport(r) ==
    /\ thread = NoTask
    /\ hpc[r] = "await:websocket-service"
    /\ \E rejected \in Outcomes :
        /\ Log(r, << Call("await import", <<"@/services/websocket-service">>, rejected) >>
                  \o CatchLog("WebSocketService cleanup failed", rejected))
        /\ faults' = faults + Count(rejected)
        /\ TryCatch(r, "await:websocket-service",
                    After(HandlerOrder, "WebSocketService.destroyInstance"), rejected)
    /\ UNCHANGED outsideHandler

\* WebSocketService.destroyInstance()
DestroyInstance(r) ==
    /\ AtHandler(r, "WebSocketService.destroyInstance")
    /\ \E threw \in Outcomes :
        /\ Log(r, << Call("WebSocketService.destroyInstance", << >>, threw) >>
                  \o CatchLog("WebSocketService cleanup failed", threw))
        /\ faults' = faults + Count(threw)
        /\ TryCatch(r, "WebSocketService.destroyInstance",
                    After(HandlerOrder, "WebSocketService.destroyInstance"), threw)
    /\ UNCHANGED outsideHandler

\* A call of the handler that is outside any try block.
Unwrapped(r, s) ==
    /\ AtHandler(r, s)
    /\ \E threw \in Outcomes :
        /\ Log(r, << Call(s, << >>, threw) >>)
        /\ faults' = faults + Count(threw)
        /\ HandlerGoto(r, s, threw)
    /\ UNCHANGED outsideHandler

\* memoryLeakDetector.stopMonitoring()
LeakDetectorStop(r) == Unwrapped(r, "memoryLeakDetector.stopMonitoring")

\* webSocketCleaner.cleanupAll()
WebSocketCleanerCleanupAll(r) == Unwrapped(r, "webSocketCleaner.cleanupAll")

\* StoreCleaner.cleanupAll()
StoreCleanerCleanupAll(r) == Unwrapped(r, "StoreCleaner.cleanupAll")

\* import('@/utils/memory-optimization') is called and awaited.
ImportMemoryOptimization(r) ==
    /\ AtHandler(r, "import:memory-optimization")
    /\ Log(r, << Call("import", <<"@/utils/memory-optimization">>, FALSE) >>)
    /\ hpc' = [hpc EXCEPT ![r] = After(HandlerOrder, "import:memory-optimization")]
    /\ thread' = NoTask
    /\ UNCHANGED faults
    /\ UNCHANGED outsideHandler

\* const { MemoryOptimizer } = await import(...): the import has settled.
ResumeMemoryOptimizationImport(r) ==
    /\ thread = NoTask
    /\ hpc[r] = "await:memory-optimization"
    /\ \E rejected \in Outcomes :
        /\ Log(r, << Call("await import", <<"@/utils/memory-optimization">>, rejected) >>
                  \o CatchLog("memory optimizer cleanup failed", rejected))
        /\ faults' = faults + Count(rejected)
        /\ TryCatch(r, "await:memory-optimization",
                    After(HandlerOrder, "MemoryOptimizer.cleanup"), rejected)
    /\ UNCHANGED outsideHandler

\* MemoryOptimizer.getInstance().cleanup()
MemoryOptimizerCleanup(r) ==
    /\ AtHandler(r, "MemoryOptimizer.cleanup")
    /\ \E threw \in Outcomes :
        /\ Log(r, << Call("MemoryOptimizer.cleanup", << >>, threw) >>
                  \o CatchLog("memory optimizer cleanup failed", threw))
        /\ faults' = faults + Count(threw)
        /\ TryCatch(r, "MemoryOptimizer.cleanup",
                    After(HandlerOrder, "MemoryOptimizer.cleanup"), threw)
    /\ UNCHANGED outsideHandler

\* if (isDev) { memoryMonitor.stopMonitoring() ...; without isDev the handler ends here.
MemoryMonitorStop(r) ==
    /\ AtHandler(r, "memoryMonitor.stopMonitoring")
    /\ IF UnloadDevGuard
       THEN \E threw \in Outcomes :
               /\ Log(r, << Call("memoryMonitor.stopMonitoring", << >>, threw) >>)
               /\ faults' = faults + Count(threw)
               /\ HandlerGoto(r, "memoryMonitor.stopMonitoring", threw)
       ELSE /\ hpc' = [hpc EXCEPT ![r] = "done"]
            /\ thread' = NoTask
            /\ UNCHANGED <<htrace, faults>>
    /\ UNCHANGED outsideHandler

\* componentPreloader.destroy()
ComponentPreloaderDestroy(r) == Unwrapped(r, "componentPreloader.destroy")

\* eventListenerManager.cleanup()
EventListenerManagerCleanup(r) == Unwrapped(r, "eventListenerManager.cleanup")

\* codeSplittingManager.cleanup()
CodeSplittingManagerCleanup(r) == Unwrapped(r, "codeSplittingManager.cleanup")

\* bundleAnalyzer.printReport() }
BundleAnalyzerPrintReport(r) == Unwrapped(r, "bundleAnalyzer.printReport")

Handler(r) ==
    \/ BeforeUnload(r) \/ ResumeWebSocketImport(r) \/ DestroyInstance(r)
    \/ LeakDetectorStop(r) \/ WebSocketCleanerCleanupAll(r) \/ StoreCleanerCleanupAll(r)
    \/ ImportMemoryOptimization(r) \/ ResumeMemoryOptimizationImport(r)
    \/ MemoryOptimizerCleanup(r) \/ MemoryMonitorStop(r) \/ ComponentPreloaderDestroy(r)
    \/ EventListenerManagerCleanup(r) \/ CodeSplittingManagerCleanup(r)
    \/ BundleAnalyzerPrintReport(r)

---------------------------------------------------------------------------
(* window.debugMemory, lines 77-84, called from the developer console.     *)

\* Method m is called; its k-th call throws (k = 0: none does), which ends it.
DebugMemoryCall ==
    /\ thread = NoTask
    /\ window["debugMemory"].present
    /\ window["debugMemory"].value = "debugMemory"
    /\ debugCalls < MaxDebugCalls
    /\ \E m \in DOMAIN DebugMemory :
         \E k \in 0..(IF faults < MaxFaults THEN Len(DebugMemory[m]) ELSE 0) :
            /\ console' = Append(console, Call("window.debugMemory", <<m>>, k # 0))
                  \o [i \in 1..(IF k = 0 THEN Len(DebugMemory[m]) ELSE k) |->
                        Call(DebugMemory[m][i], << >>, i = k)]
            /\ faults' = faults + Count(k # 0)
    /\ debugCalls' = debugCalls + 1
    /\ UNCHANGED <<DEV, isDev, pc, thread, app, window, listeners, hpc, trace, htrace,
                   navigationEntry, preload, tampers>>

---------------------------------------------------------------------------
(* Other code of the page tries to replace window.__PERF_TOOLS__.          *)

Other == [value |-> "other", writable |-> TRUE, configurable |-> TRUE]

outsideTamper == <<DEV, isDev, pc, thread, app, listeners, hpc, trace, htrace, console,
                   navigationEntry, preload, faults, debugCalls>>

\* window.__PERF_TOOLS__ = other
TamperAssign ==
    /\ thread = NoTask
    /\ tampers < MaxTampers
    /\ window' = SetProp(window, "__PERF_TOOLS__", Other.value)
    /\ tampers' = tampers + 1
    /\ UNCHANGED outsideTamper

\* Object.defineProperty(window, '__PERF_TOOLS__', {value: other, writable: true, configurable: true})
TamperDefine ==
    /\ thread = NoTask
    /\ tampers < MaxTampers
    /\ window' = DefineProp(window, "__PERF_TOOLS__", Other)
    /\ tampers' = tampers + 1
    /\ UNCHANGED outsideTamper

\* delete window.__PERF_TOOLS__
TamperDelete ==
    /\ thread = NoTask
    /\ tampers < MaxTampers
    /\ window' = DeleteProp(window, "__PERF_TOOLS__")
    /\ tampers' = tampers + 1
    /\ UNCHANGED outsideTamper

---------------------------------------------------------------------------

(* The page is loaded and then unloaded. *)

Next ==
    \/ Startup
    \/ PreloadSettles
    \/ \E r \in Runs : Handler(r)

Spec == Init /\ [][Next]_vars

(* The page is loaded and then used from the developer console. *)

ConsoleNext ==
    \/ Startup
    \/ PreloadSettles
    \/ DebugMemoryCall
    \/ TamperAssign
    \/ TamperDefine
    \/ TamperDelete

SpecConsole == Init /\ [][ConsoleNext]_vars

---------------------------------------------------------------------------
(* Reading the logs *)

IsPrefix(a, b) == Len(a) <= Len(b) /\ \A i \in 1..Len(a) : a[i] = b[i]

IsConsole(c) == c.fn \in {"console.log", "console.error"}

NotConsole(c) == ~IsConsole(c)

\* The calls of a log other than console output, each as <<fn>> \o args.
Steps(log) ==
    LET kept == SelectSeq(log, NotConsole)
    IN  [i \in 1..Len(kept) |-> <<kept[i].fn>> \o kept[i].args]

Has(log, fn) == \E i \in 1..Len(log) : log[i].fn = fn

Threw(log, fn) == \E i \in 1..Len(log) : log[i].fn = fn /\ log[i].threw

Returned(log, fn) == \E i \in 1..Len(log) : log[i].fn = fn /\ ~log[i].threw

Rejected(log, module) ==
    \E i \in 1..Len(log) :
        log[i].fn = "await import" /\ log[i].args = <<module>> /\ log[i].threw


WebSocketModule == "@/services/websocket-service"

MemoryOptimizationModule == "@/utils/memory-optimization"

UnwrappedCalls ==
    {"memoryLeakDetector.stopMonitoring", "webSocketCleaner.cleanupAll",
     "StoreCleaner.cleanupAll", "memoryMonitor.stopMonitoring", "componentPreloader.destroy",
     "eventListenerManager.cleanup", "codeSplittingManager.cleanup",
     "bundleAnalyzer.printReport"}

DevOnlyCleanup ==
    <<"memoryMonitor.stopMonitoring", "componentPreloader.destroy",
      "eventListenerManager.cleanup", "codeSplittingManager.cleanup",
      "bundleAnalyzer.printReport">>

WebSocketStepFailed(c) ==
    \/ c.fn = "await import" /\ c.args = <<WebSocketModule>> /\ c.threw
    \/ c.fn = "WebSocketService.destroyInstance" /\ c.threw

MemoryOptimizerStepFailed(c) ==
    \/ c.fn = "await import" /\ c.args = <<MemoryOptimizationModule>> /\ c.threw
    \/ c.fn = "MemoryOptimizer.cleanup" /\ c.threw

---------------------------------------------------------------------------
(* The claims *)

\* C1: a rejected import of websocket-service or a throw of
\* WebSocketService.destroyInstance() is caught and logged, and the handler goes on
\* with memoryLeakDetector.stopMonitoring() and, every later call returning, with
\* webSocketCleaner.cleanupAll(), StoreCleaner.cleanupAll() and the memory-optimizer
\* step; a rejected import of memory-optimization or a throw of
\* MemoryOptimizer.getInstance().cleanup() is caught and logged, and the handler goes
\* on with the development-only cleanup (in development mode) or ends normally.
\* The handler's promise is rejected only by a call outside the two try blocks.
C1_WrappedFailuresAreIsolated ==
    \A r \in Runs :
        LET log == htrace[r] IN
        /\ \A i \in 1..Len(log) :
            /\ WebSocketStepFailed(log[i]) =>
                /\ Len(log) > i
                /\ log[i + 1] = Call("console.error", <<"WebSocketService cleanup failed">>, FALSE)
                /\ IF Len(log) = i + 1
                   THEN thread = Run(r) /\ hpc[r] = "memoryLeakDetector.stopMonitoring"
                   ELSE log[i + 2].fn = "memoryLeakDetector.stopMonitoring"
                /\ hpc[r] = "done" =>
                      /\ Has(log, "webSocketCleaner.cleanupAll")
                      /\ Has(log, "StoreCleaner.cleanupAll")
                      /\ <<"import", MemoryOptimizationModule>> \in
                             {Steps(log)[j] : j \in 1..Len(Steps(log))}
                      /\ Rejected(log, MemoryOptimizationModule)
                             \/ Has(log, "MemoryOptimizer.cleanup")
            /\ MemoryOptimizerStepFailed(log[i]) =>
                /\ Len(log) > i
                /\ log[i + 1] = Call("console.error", <<"memory optimizer cleanup failed">>, FALSE)
                /\ IF Len(log) = i + 1
                   THEN \/ thread = Run(r) /\ hpc[r] = "memoryMonitor.stopMonitoring"
                        \/ ~DEV /\ hpc[r] = "done"
                   ELSE DEV /\ log[i + 2].fn = "memoryMonitor.stopMonitoring"
                /\ hpc[r] = "done" /\ DEV =>
                      \A k \in 1..Len(DevOnlyCleanup) : Has(log, DevOnlyCleanup[k])
        /\ hpc[r] = "rejected" =>
            /\ log[Len(log)].threw
            /\ log[Len(log)].fn \in UnwrappedCalls

\* A development run that ended normally although the first import was rejected and
\* MemoryOptimizer.getInstance().cleanup() threw.
C1_Witness ==
    \E r \in Runs :
        /\ DEV
        /\ hpc[r] = "done"
        /\ Rejected(htrace[r], WebSocketModule)
        /\ Threw(htrace[r], "MemoryOptimizer.cleanup")
        /\ Returned(htrace[r], "bundleAnalyzer.printReport")

C2_DeclaredOrder ==
    << <<"import", WebSocketModule>>, <<"await import", WebSocketModule>>,
       <<"WebSocketService.destroyInstance">>,
       <<"memoryLeakDetector.stopMonitoring">>,
       <<"webSocketCleaner.cleanupAll">>,
       <<"StoreCleaner.cleanupAll">>,
       <<"import", MemoryOptimizationModule>>, <<"await import", MemoryOptimizationModule>>,
       <<"MemoryOptimizer.cleanup">>,
       <<"memoryMonitor.stopMonitoring">>,
       <<"componentPreloader.destroy">>,
       <<"eventListenerManager.cleanup">>,
       <<"codeSplittingManager.cleanup">>,
       <<"bundleAnalyzer.printReport">> >>

C2_Skipped(webSocketRejected, memoryOptimizationRejected, step) ==
    \/ step = <<"WebSocketService.destroyInstance">> /\ webSocketRejected
    \/ step = <<"MemoryOptimizer.cleanup">> /\ memoryOptimizationRejected
    \/ ~DEV /\ \E k \in 1..Len(DevOnlyCleanup) : step = <<DevOnlyCleanup[k]>>

\* What a run makes of the declared order: a step whose module failed to load is
\* left out, and so are the development-only steps in production mode.
C2_Expected(log) ==
    LET webSocketRejected == Rejected(log, WebSocketModule)
        memoryOptimizationRejected == Rejected(log, MemoryOptimizationModule)
        Keep(step) == ~C2_Skipped(webSocketRejected, memoryOptimizationRejected, step)
    IN  SelectSeq(C2_DeclaredOrder, Keep)

\* C2: the calls of every run of the handler follow the one declared order: (1)
\* WebSocketService.destroyInstance, (2) memoryLeakDetector.stopMonitoring, (3)
\* webSocketCleaner.cleanupAll, (4) StoreCleaner.cleanupAll, (5)
\* MemoryOptimizer.getInstance().cleanup, then in development mode (6)-(10); each
\* import is called and has settled before any later step; stopMonitoring is called in
\* every run that gets to it; and a run that ended normally made every step of the order.
C2_FixedOrder ==
    \A r \in Runs :
        LET made == Steps(htrace[r])
            want == C2_Expected(htrace[r])
        IN
        /\ IsPrefix(made, want)
        /\ hpc[r] = "done" => made = want
        /\ hpc[r] \in {"await:websocket-service", "await:memory-optimization"} =>
              /\ thread # Run(r)
              /\ htrace[r][Len(htrace[r])].fn = "import"

\* Two runs ended normally: the second memoryLeakDetector.stopMonitoring() was called
\* after the first had returned, when the detector was no longer monitoring.
C2_Witness ==
    /\ \A r \in {1, 2} :
          /\ hpc[r] = "done"
          /\ Returned(htrace[r], "memoryLeakDetector.stopMonitoring")
          /\ Steps(htrace[r]) = C2_Expected(htrace[r])
    /\ DEV

\* C3: a throw of a call outside the two try blocks (memoryLeakDetector.stopMonitoring,
\* webSocketCleaner.cleanupAll, StoreCleaner.cleanupAll, a development-only cleanup)
\* is not caught in the handler: it is the last call the run ever makes, and the run
\* has ended with its promise rejected.
C3_UnwrappedThrowEndsRun ==
    \A r \in Runs :
        \A i \in 1..Len(htrace[r]) :
            htrace[r][i].fn \in UnwrappedCalls /\ htrace[r][i].threw =>
                /\ i = Len(htrace[r])
                /\ hpc[r] = "rejected"
                /\ thread # Run(r)

\* memoryLeakDetector.stopMonitoring() threw: the run is over, and neither cleanupAll
\* nor the memory-optimizer step was reached.
C3_Witness ==
    \E r \in Runs :
        /\ Threw(htrace[r], "memoryLeakDetector.stopMonitoring")
        /\ hpc[r] = "rejected"
        /\ ~Has(htrace[r], "webSocketCleaner.cleanupAll")
        /\ ~Has(htrace[r], "StoreCleaner.cleanupAll")
        /\ <<"import", MemoryOptimizationModule>> \notin
               {Steps(htrace[r])[j] : j \in 1..Len(Steps(htrace[r]))}

DevOnlyCalls ==
    {"memoryMonitor.startMonitoring", "componentPreloader.preloadComponent",
     "memoryMonitor.stopMonitoring", "componentPreloader.destroy",
     "eventListenerManager.cleanup", "codeSplittingManager.cleanup",
     "bundleAnalyzer.printReport"}

\* C4: in production mode no development-only call is ever made: neither
\* memoryMonitor.startMonitoring nor componentPreloader.preloadComponent at startup,
\* nor memoryMonitor.stopMonitoring, componentPreloader.destroy,
\* eventListenerManager.cleanup, codeSplittingManager.cleanup or
\* bundleAnalyzer.printReport in the beforeunload handler.
C4_NoDevCallsInProduction ==
    ~DEV =>
        /\ \A i \in 1..Len(trace) : trace[i].fn \notin DevOnlyCalls
        /\ \A r \in Runs : \A i \in 1..Len(htrace[r]) : htrace[r][i].fn \notin DevOnlyCalls

\* A production page that started up and whose beforeunload handler ran to its end.
C4_Witness ==
    /\ ~DEV
    /\ pc = "done"
    /\ \E r \in Runs : hpc[r] = "done" /\ Returned(htrace[r], "MemoryOptimizer.cleanup")

C7_MetricLabels == <<"DOMContentLoaded", "Load Complete", "DNS Lookup", "TCP Connect">>

C7_IsMetric(c) ==
    c.fn = "console.log" /\ Len(c.args) = 2

\* The metric lines of the module's log, each as its label.
C7_Logged ==
    LET lines == SelectSeq(trace, C7_IsMetric)
    IN  [i \in 1..Len(lines) |-> lines[i].args[1]]

\* C7: once performance.getEntriesByType('navigation') has been read, without an
\* entry no metric line is logged, and with one exactly the four lines DOMContentLoaded,
\* Load Complete, DNS Lookup and TCP Connect are; either way nothing is thrown and the
\* module goes on to set app.config.errorHandler.
C7_NavigationReport ==
    /\ Has(trace, "performance.getEntriesByType") =>
          /\ C7_Logged = IF navigationEntry = << >> THEN << >> ELSE C7_MetricLabels
          /\ ~Threw(trace, "performance.getEntriesByType")
          /\ pc \in {"errorHandler", "globals", "done"}
          /\ pc # "errorHandler" => app.errorHandler
    /\ ~Has(trace, "performance.getEntriesByType") => C7_Logged = << >>

\* Startup finished without a navigation entry: nothing logged, the handler installed.
C7_Witness ==
    /\ pc = "done"
    /\ navigationEntry = << >>
    /\ Has(trace, "performance.getEntriesByType")
    /\ C7_Logged = << >>
    /\ app.errorHandler

C8_Order(dev) ==
    << <<"createApp">>, <<"usePinia">>, <<"app.use(router)">>, <<"app.use(i18n)">>,
       <<"storeManager.initialize">>,
       <<"memoryLeakDetector.startMonitoring", IF dev THEN 15000 ELSE 30000>>,
       <<"window.addEventListener", "beforeunload">> >>
    \o (IF dev THEN << <<"window.debugMemory =">>,
                       <<"memoryMonitor.startMonitoring", 15000>>,
                       <<"componentPreloader.preloadComponent", "HomeView">> >>
               ELSE << >>)
    \o << <<"app.mount", "#app">>,
          <<"performance.getEntriesByType", "navigation">>,
          <<"app.config.errorHandler =">> >>
    \o (IF dev THEN << <<"app.config.globalProperties.$performance =">>,
                       <<"Object.defineProperty", "__PERF_TOOLS__">> >>
               ELSE << >>)

\* Equality of two steps whose arguments may be of different kinds.
C8_Same(a, b) ==
    /\ Len(a) = Len(b)
    /\ a[1] = b[1]
    /\ Len(a) = 2 => a[2] = b[2]

\* C8: startup performs its steps in one order: createApp, usePinia, app.use(router),
\* app.use(i18n), storeManager.initialize, memoryLeakDetector.startMonitoring,
\* addEventListener('beforeunload'), (dev) window.debugMemory, (dev)
\* memoryMonitor.startMonitoring and preloadComponent('HomeView'), app.mount('#app'),
\* the navigation-timing read, app.config.errorHandler, (dev) $performance and
\* window.__PERF_TOOLS__.  The error handler is set only after mount has returned and
\* the beforeunload listener is registered only after the leak monitor was started.
C8_StartupOrder ==
    LET done == Steps(trace)
        want == C8_Order(DEV)
    IN  /\ Len(done) <= Len(want)
        /\ \A i \in 1..Len(done) : C8_Same(done[i], want[i])
        /\ pc = "done" => Len(done) = Len(want)
        /\ app.errorHandler => app.mounted /\ Returned(trace, "app.mount")
        /\ Len(listeners) > 0 => Returned(trace, "memoryLeakDetector.startMonitoring")
        /\ app.mounted => app.plugins = <<"pinia", "router", "i18n">>

\* A development startup that ran to its end.
C8_Witness ==
    /\ DEV
    /\ pc = "done"
    /\ app.errorHandler
    /\ window["__PERF_TOOLS__"].present
    /\ Len(Steps(trace)) = Len(C8_Order(TRUE))

C9_Unwrapped ==
    {"createApp", "usePinia", "app.use(router)", "app.use(i18n)", "storeManager.initialize",
     "memoryLeakDetector.startMonitoring", "memoryMonitor.startMonitoring",
     "componentPreloader.preloadComponent", "app.mount"}

\* C9: a throw of a startup call that is not wrapped (usePinia, app.use(router),
\* app.use(i18n), storeManager.initialize, memoryLeakDetector.startMonitoring,
\* app.mount, ...) is not caught: the module's evaluation ends there and no later
\* startup step is performed.  After a throw of a plugin attach the leak monitor is
\* never started, no beforeunload listener is registered and the app is not mounted.
C9_StartupThrowAborts ==
    /\ \A i \in 1..Len(trace) :
          trace[i].threw =>
              /\ trace[i].fn \in C9_Unwrapped
              /\ pc = "aborted"
              /\ thread # MainTask
              /\ \A j \in (i + 1)..Len(trace) :
                    trace[j] = Call("console.error", <<"preloadComponent rejected">>, FALSE)
              /\ ~app.errorHandler
              /\ window["__PERF_TOOLS__"].value # "performanceTools"
              /\ trace[i].fn = "app.mount" => ~app.mounted
              /\ trace[i].fn \in {"createApp", "usePinia", "app.use(router)", "app.use(i18n)",
                                  "storeManager.initialize",
                                  "memoryLeakDetector.startMonitoring"} =>
                    /\ listeners = << >>
                    /\ ~app.mounted
                    /\ \A r \in Runs : hpc[r] = "idle"
              /\ trace[i].fn \in {"createApp", "usePinia", "app.use(router)", "app.use(i18n)",
                                  "storeManager.initialize"} =>
                    ~Has(trace, "memoryLeakDetector.startMonitoring")
    /\ pc = "aborted" => \E i \in 1..Len(trace) : trace[i].threw

\* app.use(router) threw: startup is over with no monitor, no listener and no mount.
C9_Witness ==
    /\ Threw(trace, "app.use(router)")
    /\ pc = "aborted"
    /\ listeners = << >>
    /\ ~Has(trace, "memoryLeakDetector.startMonitoring")
    /\ ~Has(trace, "app.mount")

C10_Arg(log, fn) == log[CHOOSE i \in 1..Len(log) : log[i].fn = fn].args

\* C10: monitors are started and stopped in pairs.  memoryLeakDetector is started
\* with 15000 in development mode and 30000 in production mode, memoryMonitor is
\* started in development mode only; no stopMonitoring of a run comes before the
\* startMonitoring of the same monitor; and after a completed startup a run that
\* ended normally has stopped memoryLeakDetector, and has stopped memoryMonitor
\* exactly when it was started.
C10_MonitorsPaired ==
    /\ Has(trace, "memoryLeakDetector.startMonitoring") =>
          C10_Arg(trace, "memoryLeakDetector.startMonitoring")
              = IF DEV THEN <<15000>> ELSE <<30000>>
    /\ Has(trace, "memoryMonitor.startMonitoring") =>
          DEV /\ C10_Arg(trace, "memoryMonitor.startMonitoring") = <<15000>>
    /\ \A r \in Runs :
          /\ Has(htrace[r], "memoryLeakDetector.stopMonitoring") =>
                Returned(trace, "memoryLeakDetector.startMonitoring")
          /\ Has(htrace[r], "memoryMonitor.stopMonitoring") =>
                Has(trace, "memoryMonitor.startMonitoring")
          /\ pc = "done" /\ hpc[r] = "done" =>
                /\ Returned(trace, "memoryLeakDetector.startMonitoring")
                /\ Returned(htrace[r], "memoryLeakDetector.stopMonitoring")
                /\ Returned(trace, "memoryMonitor.startMonitoring") <=> DEV
                /\ Returned(htrace[r], "memoryMonitor.stopMonitoring")
                      <=> Returned(trace, "memoryMonitor.startMonitoring")

\* A development page that started both monitors and whose handler stopped both.
C10_Witness ==
    /\ DEV
    /\ pc = "done"
    /\ \E r \in Runs :
          /\ hpc[r] = "done"
          /\ Returned(htrace[r], "memoryLeakDetector.stopMonitoring")
          /\ Returned(htrace[r], "memoryMonitor.stopMonitoring")

C5_Body(m) ==
    CASE m = "checkMemory" -> <<"memoryLeakDetector.forceCheck">>
      [] m = "getStats" -> <<"memoryLeakDetector.getMemoryStats">>
      [] m = "cleanupAll" -> <<"webSocketCleaner.cleanupAll", "StoreCleaner.cleanupAll">>

C5_Headers == {i \in 1..Len(console) : console[i].fn = "window.debugMemory"}

\* The index after the calls made by the method called at index i.
C5_End(i) ==
    LET later == {j \in C5_Headers : j > i} \cup {Len(console) + 1}
    IN  CHOOSE j \in later : \A k \in later : j <= k

\* C5: window.debugMemory is defined exactly in development mode: never in
\* production mode, and in development mode from the statement of line 77 on, so
\* after startup.  Its checkMemory calls memoryLeakDetector.forceCheck, its getStats
\* calls memoryLeakDetector.getMemoryStats, and its cleanupAll calls
\* webSocketCleaner.cleanupAll and then StoreCleaner.cleanupAll.
C5_DebugMemoryOnlyInDev ==
    /\ window["debugMemory"].present <=> Has(trace, "window.debugMemory =")
    /\ window["debugMemory"].present => DEV /\ window["debugMemory"].value = "debugMemory"
    /\ DEV /\ pc = "done" => window["debugMemory"].present
    /\ ~DEV => ~window["debugMemory"].present /\ console = << >>
    /\ console # << >> => 1 \in C5_Headers
    /\ \A i \in C5_Headers :
          LET m == console[i].args[1]
              n == C5_End(i) - i - 1
              body == [k \in 1..n |-> console[i + k].fn]
          IN  /\ m \in {"checkMemory", "getStats", "cleanupAll"}
              /\ n >= 1
              /\ IsPrefix(body, C5_Body(m))
              /\ console[i].threw <=> console[i + n].threw
              /\ \A k \in 1..(n - 1) : ~console[i + k].threw
              /\ ~console[i].threw => body = C5_Body(m)

\* In development mode cleanupAll has been called from the console and made both calls.
C5_Witness ==
    /\ DEV
    /\ pc = "done"
    /\ window["debugMemory"].present
    /\ \E i \in C5_Headers :
          /\ console[i].args = <<"cleanupAll">>
          /\ ~console[i].threw
          /\ console[i + 1].fn = "webSocketCleaner.cleanupAll"
          /\ console[i + 2].fn = "StoreCleaner.cleanupAll"

C6_Defined ==
    [present |-> TRUE, value |-> "performanceTools", writable |-> FALSE, configurable |-> FALSE]

\* C6: in development mode window.__PERF_TOOLS__ is the performanceTools object once
\* startup is done, and from then on it stays that object: an assignment, a
\* redefinition or a deletion of the property leaves it as it was.
C6_PerfToolsStay ==
    /\ [](DEV /\ pc = "done" => window["__PERF_TOOLS__"] = C6_Defined)
    /\ [][window["__PERF_TOOLS__"].value = "performanceTools" =>
              window'["__PERF_TOOLS__"] = window["__PERF_TOOLS__"]]_vars

\* Other code has tried to change the property after it was defined, and it is unchanged.
C6_Witness ==
    /\ DEV
    /\ pc = "done"
    /\ tampers > 0
    /\ window["__PERF_TOOLS__"].value = "performanceTools"

====
